---- MODULE Spec2Model ----
(***************************************************************************)
(* Session lifecycle controller of use-liftoff-agent                       *)
(* (src/src/session_manager.py, class SessionTimeManager).                 *)
(*                                                                         *)
(* Time is counted in ticks of 10 seconds, the largest unit that divides   *)
(* both suspending waits of the controller (asyncio.sleep(30) and          *)
(* asyncio.sleep(10)).  The clock `now` counts ticks since the controller  *)
(* was constructed, so start_time is the clock value at construction.      *)
(*                                                                         *)
(* A monitoring task is an asyncio task: it runs from one await to the     *)
(* next without interruption, so every action below is one such segment.   *)
(* pc[t] is the await at which task t is suspended:                        *)
(*   "none"      no task object yet                                        *)
(*   "created"   create_task returned, the coroutine has not run yet       *)
(*   "call5"     awaiting generate_reply of the 5-minute warning           *)
(*   "call1"     awaiting generate_reply of the 1-minute warning           *)
(*   "sleep"     awaiting asyncio.sleep(30), due at wake[t]                *)
(*   "callEnd"   awaiting generate_reply of the end-of-session instruction *)
(*   "grace"     awaiting asyncio.sleep(10), due at wake[t]                *)
(*   "done"      returned through the break of the loop                    *)
(*   "stopped"   returned through `except asyncio.CancelledError: pass`    *)
(*   "failed"    ended by an exception that left _monitor_time             *)
(*   "cancelled" cancelled before its first step; the body never ran       *)
(***************************************************************************)
EXTENDS Integers, Sequences, FiniteSets, TLC

\* ---------------------------------------------------------------- bounds
\* longest session, in minutes
MaxDuration == 6
\* number of task objects start_monitoring may create
MaxTasks == 2
\* longest time, in ticks, between construction and start_monitoring
MaxStartDelay == 3
\* longest time, in ticks, a generate_reply call stays unresolved
MaxCallTicks == 2
\* largest "duration" unit count drawn for the room metadata
MaxUnits == 2
\* number of calls of LLMFactory.create_llm that are followed
MaxVoiceCalls == 2

\* ------------------------------------------------------ program constants
\* ticks per minute: timedelta(minutes=...) in 10-second ticks
MinuteTicks == 6
\* timedelta(minutes=5)
FiveMinutes == 5
\* timedelta(minutes=1)
OneMinute == 1
\* asyncio.sleep(30), in ticks
PollSleep == 3
\* asyncio.sleep(10), in ticks
GraceSleep == 1

Durations == 0..MaxDuration
TaskIds == 1..MaxTasks
Horizon == MaxStartDelay + MaxDuration * MinuteTicks + PollSleep + GraceSleep
               + 3 * MaxCallTicks

Kinds == {"w5", "w1", "end"}
Finished == {"done", "stopped", "failed", "cancelled"}
InCall == {"call5", "call1", "callEnd"}

VARIABLES
    now,                \* datetime.now(), ticks since construction
    start_time,         \* self.start_time
    duration_minutes,   \* self.duration_minutes
    warning_sent_5min,  \* self._warning_sent_5min
    warning_sent_1min,  \* self._warning_sent_1min
    monitoring_task,    \* self._monitoring_task: 0 is None, else a task id
    ntasks,             \* number of tasks created by start_monitoring
    pc,                 \* pc[t]: where task t is suspended
    wake,               \* wake[t]: clock value at which the sleep of t is due,
                        \* or by which the call of t has resolved
    must_cancel,        \* must_cancel[t]: cancel() was requested, not yet delivered
    started_at,         \* started_at[t]: clock value when t was created (-1: never)
    replies,            \* calls of session.generate_reply, in issue order
    replies_at_stop,    \* Len(replies) at the first effective cancel(), -1 before
    entry,              \* where the entrypoint coroutine stands
    metadata_str,       \* ctx.room.metadata
    raw_metadata,       \* raw_metadata of the entrypoint
    metadata,           \* result of transform_ui_metadata
    agent_class,        \* class of custom_agent
    provider_name,      \* argument provider_name of LLMFactory.create_llm
    gender,             \* argument gender of LLMFactory.create_llm
    provider,           \* class of the provider get_provider returned
    selected_voice,     \* selected_voice of get_random_voice_for_gender
    voice_calls         \* number of calls of create_llm so far

\* the variables of the voice selection
llmVars == <<provider_name, gender, provider, selected_voice, voice_calls>>

\* the variables of the entrypoint
entryVars == <<entry, metadata_str, raw_metadata, metadata, agent_class, llmVars>>

vars == <<now, start_time, duration_minutes, warning_sent_5min, warning_sent_1min,
          monitoring_task, ntasks, pc, wake, must_cancel, started_at, replies,
          replies_at_stop, entryVars>>

\* remaining = timedelta(minutes=self.duration_minutes) - (datetime.now() - self.start_time)
Remaining == duration_minutes * MinuteTicks - (now - start_time)

\* Branch with the fired-once test of the 5-minute warning left out.
BranchNoFlag5(remaining, sent5, sent1) ==
    IF remaining <= 0 THEN "end"
    ELSE IF remaining <= FiveMinutes * MinuteTicks THEN "w5"
    ELSE IF remaining <= OneMinute * MinuteTicks /\ ~sent1 THEN "w1"
    ELSE "sleep"

\* Branch with the warnings tested before the time-up test.
BranchWarnFirst(remaining, sent5, sent1) ==
    IF remaining <= FiveMinutes * MinuteTicks /\ ~sent5 THEN "w5"
    ELSE IF remaining <= OneMinute * MinuteTicks /\ ~sent1 THEN "w1"
    ELSE IF remaining <= 0 THEN "end"
    ELSE "sleep"

\* Branch with the 1-minute warning tested against the 5-minute threshold.
BranchEarly1(remaining, sent5, sent1) ==
    IF remaining <= 0 THEN "end"
    ELSE IF remaining <= FiveMinutes * MinuteTicks /\ ~sent5 THEN "w5"
    ELSE IF remaining <= FiveMinutes * MinuteTicks /\ ~sent1 THEN "w1"
    ELSE "sleep"

\* Branch with the time-up test left out.
BranchNoEnd(remaining, sent5, sent1) ==
    IF remaining <= FiveMinutes * MinuteTicks /\ ~sent5 THEN "w5"
    ELSE IF remaining <= OneMinute * MinuteTicks /\ ~sent1 THEN "w1"
    ELSE "sleep"

\* Branch with the 1-minute test placed before the 5-minute test.
BranchOneFirst(remaining, sent5, sent1) ==
    IF remaining <= 0 THEN "end"
    ELSE IF remaining <= OneMinute * MinuteTicks /\ ~sent1 THEN "w1"
    ELSE IF remaining <= FiveMinutes * MinuteTicks /\ ~sent5 THEN "w5"
    ELSE "sleep"

\* The if / if / elif chain of one loop iteration: which branch is taken.
Branch(remaining, sent5, sent1) ==
    IF remaining <= 0 THEN "end"
    ELSE IF remaining <= FiveMinutes * MinuteTicks /\ ~sent5 THEN "w5"
    ELSE IF remaining <= OneMinute * MinuteTicks /\ ~sent1 THEN "w1"
    ELSE "sleep"

Reply(kind, t) == [kind |-> kind, task |-> t, remaining |-> Remaining]

\* A task the event loop is about to resume: it must run before the clock
\* moves on by a whole tick.
Ready(t) ==
    \/ pc[t] = "created"
    \/ pc[t] \in {"sleep", "grace"} \cup InCall /\ wake[t] <= now
    \/ must_cancel[t]

\* ------------------------------------------------------------------
\* Room metadata and configuration (src/main.py entrypoint,
\* src/src/metadata_transformer.py, src/src/agent_types.py).
\*
\* A JSON value is a record [json, fields]: json is the kind of value
\* ("object", "list", "string", "number", "null"), fields the key/value
\* mapping of an object.  Room metadata is the JSON text of such a value, or
\* "absent" (None or the empty string), or "garbage" (text json.loads
\* rejects).  Strings are TLA+ strings, so concatenation and join are
\* computed on characters.

Keys == {"type", "description", "display_name", "level", "specialty", "gender",
         "duration"}

\* the keys of SimplifiedAgentFactory.AGENT_TYPES and of duration_mapping
AgentKinds == {"interview", "presentation", "english_speaking", "general"}

\* values drawn for the fields of the metadata
FieldValues ==
    [type : AgentKinds \cup {"podcast"},
     description : {"X", ""},
     display_name : {"Sarah"},
     level : {"L5"},
     specialty : {"Backend"},
     gender : {"male", "female", "robot"},
     duration : 1..MaxUnits]

NoFields == [k \in {} |-> ""]
Object(f) == [json |-> "object", fields |-> f]
NonObject(j) == [json |-> j, fields |-> NoFields]

\* raw_metadata: Dict[str, Any] = {}
EmptyDict == Object(NoFields)

RoomMetadata ==
    {Object([k \in present |-> v[k]]) : present \in SUBSET Keys, v \in FieldValues}
        \cup {NonObject(j) : j \in {"absent", "garbage", "list", "string", "number", "null"}}

\* The parsing of the entrypoint: absent metadata is not parsed, a
\* JSONDecodeError is caught, and both leave the empty dict; anything
\* json.loads accepts is taken as it is.
ParseMetadata(ms) ==
    IF ms.json \in {"absent", "garbage"} THEN EmptyDict ELSE ms

\* dict.get(key, default)
Get(f, key, default) == IF key \in DOMAIN f THEN f[key] ELSE default

\* separator.join(parts)
RECURSIVE Join(_, _)
Join(separator, parts) ==
    IF Len(parts) = 0 THEN ""
    ELSE IF Len(parts) = 1 THEN parts[1]
    ELSE parts[1] \o separator \o Join(separator, Tail(parts))

\* description_parts of transform_ui_metadata
DescriptionParts(f) ==
    (IF "description" \in DOMAIN f THEN <<f["description"]>> ELSE <<>>)
        \o (IF "display_name" \in DOMAIN f
              THEN <<"Interviewer: " \o f["display_name"]>> ELSE <<>>)
        \o (IF "level" \in DOMAIN f THEN <<"Level: " \o f["level"]>> ELSE <<>>)
        \o (IF "specialty" \in DOMAIN f
              THEN <<"Specialty: " \o f["specialty"]>> ELSE <<>>)

\* duration_mapping: minutes per duration unit
DurationMapping ==
    [interview |-> 15, presentation |-> 10, english_speaking |-> 10, general |-> 10]

\* ui_metadata.get("duration", 2)
DefaultUnits == 2
\* duration_mapping.get(agent_type, 10)
DefaultBase == 10

\* what the entrypoint holds before transform_ui_metadata returned
NoMetadata ==
    [error |-> "", agent_type |-> "", description |-> "", gender |-> "",
     duration_minutes |-> 0]

\* transform_ui_metadata: the returned dict, or the exception it raises
\* (a value that is not a dict has no method get).
transform_ui_metadata(ui_metadata) ==
    IF ui_metadata.json # "object"
    THEN [NoMetadata EXCEPT !.error = "AttributeError"]
    ELSE LET f == ui_metadata.fields
             agent_type == Get(f, "type", "general")
             duration_multiplier == Get(f, "duration", DefaultUnits)
             base_duration == Get(DurationMapping, agent_type, DefaultBase)
         IN [error |-> "",
             agent_type |-> agent_type,
             description |-> Join(". ", DescriptionParts(f)),
             gender |-> Get(f, "gender", "female"),
             duration_minutes |-> base_duration * duration_multiplier]

\* SimplifiedAgentFactory.AGENT_TYPES
AgentTypes ==
    [interview |-> "InterviewAgent", presentation |-> "PresentationAgent",
     english_speaking |-> "EnglishSpeakingAgent", general |-> "GeneralAgent"]

\* create_agent with AGENT_TYPES[agent_type] in place of .get(..., GeneralAgent)
create_agent_strict(agent_type) ==
    IF agent_type \in DOMAIN AgentTypes THEN AgentTypes[agent_type] ELSE "KeyError"

\* SimplifiedAgentFactory.create_agent: the class of the agent it builds
create_agent(agent_type) == Get(AgentTypes, agent_type, "GeneralAgent")

\* The voice selection is not followed: create_llm has not been called.
VoiceIdle ==
    /\ provider_name = "google"
    /\ gender = "female"
    /\ provider = "none"
    /\ selected_voice = ""
    /\ voice_calls = 0

\* The configuration is not followed: the entrypoint variables at rest.
EntryIdle ==
    /\ metadata_str = NonObject("absent")
    /\ raw_metadata = EmptyDict
    /\ metadata = NoMetadata
    /\ agent_class = "none"
    /\ VoiceIdle

\* The controller as its constructor leaves it.
Constructed ==
    /\ now = 0
    /\ start_time = 0
    /\ warning_sent_5min = FALSE
    /\ warning_sent_1min = FALSE
    /\ monitoring_task = 0
    /\ ntasks = 0
    /\ pc = [t \in TaskIds |-> "none"]
    /\ wake = [t \in TaskIds |-> 0]
    /\ must_cancel = [t \in TaskIds |-> FALSE]
    /\ started_at = [t \in TaskIds |-> -1]
    /\ replies = <<>>
    /\ replies_at_stop = -1

Init ==
    /\ Constructed
    /\ duration_minutes \in Durations
    /\ entry = "monitoring"
    /\ EntryIdle

\* A task that has ended and left nothing undone: it returned, or it was
\* cancelled before it ran.
Over(t) == pc[t] \in {"done", "stopped", "cancelled"}

\* The clock advances by one tick while no task is ready to run.
\* start_monitoring is called within MaxStartDelay of the construction, and
\* the clock is followed until every task that was started is over.
Tick ==
    /\ entry = "monitoring"
    /\ now - start_time < Horizon
    /\ \A t \in TaskIds : ~Ready(t)
    /\ IF ntasks = 0 THEN now - start_time < MaxStartDelay
                     ELSE \E t \in 1..ntasks : ~Over(t)
    /\ now' = now + 1
    /\ UNCHANGED <<start_time, duration_minutes, warning_sent_5min, warning_sent_1min,
                   monitoring_task, ntasks, pc, wake, must_cancel, started_at,
                   replies, replies_at_stop>>
    /\ UNCHANGED entryVars

\* start_monitoring: self._monitoring_task = asyncio.create_task(self._monitor_time())
StartMonitoring ==
    /\ entry = "monitoring"
    /\ ntasks < MaxTasks
    /\ ntasks' = ntasks + 1
    /\ monitoring_task' = ntasks + 1
    /\ pc' = [pc EXCEPT ![ntasks + 1] = "created"]
    /\ started_at' = [started_at EXCEPT ![ntasks + 1] = now]
    /\ UNCHANGED <<now, start_time, duration_minutes, warning_sent_5min,
                   warning_sent_1min, wake, must_cancel, replies, replies_at_stop>>
    /\ UNCHANGED entryVars

\* Poll that also runs while a call of the task is unresolved, as if the
\* warning calls were started without being awaited.
PollWhileInCall(t) ==
    /\ ~must_cancel[t]
    /\ \/ pc[t] = "created"
       \/ pc[t] = "sleep" /\ wake[t] <= now
       \/ pc[t] \in {"call5", "call1"}
    /\ LET b == Branch(Remaining, warning_sent_5min, warning_sent_1min) IN
        /\ warning_sent_5min' = (warning_sent_5min \/ b = "w5")
        /\ warning_sent_1min' = (warning_sent_1min \/ b = "w1")
        /\ replies' = IF b \in Kinds THEN Append(replies, Reply(b, t)) ELSE replies
        /\ pc' = [pc EXCEPT ![t] = CASE b = "end" -> "callEnd"
                                     [] b = "w5" -> "call5"
                                     [] b = "w1" -> "call1"
                                     [] OTHER -> "sleep"]
        /\ wake' = [wake EXCEPT ![t] = now + (IF b = "sleep" THEN PollSleep
                                                              ELSE MaxCallTicks)]
    /\ UNCHANGED <<now, start_time, duration_minutes, monitoring_task, ntasks,
                   must_cancel, started_at, replies_at_stop>>
    /\ UNCHANGED entryVars

\* Poll with the assignments of the fired flags moved behind the await, out
\* of the segment that tests them.
PollFlagAfterAwait(t) ==
    /\ ~must_cancel[t]
    /\ \/ pc[t] = "created"
       \/ pc[t] = "sleep" /\ wake[t] <= now
    /\ LET b == Branch(Remaining, warning_sent_5min, warning_sent_1min) IN
        /\ UNCHANGED <<warning_sent_5min, warning_sent_1min>>
        /\ replies' = IF b \in Kinds THEN Append(replies, Reply(b, t)) ELSE replies
        /\ pc' = [pc EXCEPT ![t] = CASE b = "end" -> "callEnd"
                                     [] b = "w5" -> "call5"
                                     [] b = "w1" -> "call1"
                                     [] OTHER -> "sleep"]
        /\ wake' = [wake EXCEPT ![t] = now + (IF b = "sleep" THEN PollSleep
                                                              ELSE MaxCallTicks)]
    /\ UNCHANGED <<now, start_time, duration_minutes, monitoring_task, ntasks,
                   must_cancel, started_at, replies_at_stop>>
    /\ UNCHANGED entryVars

\* One loop iteration of _monitor_time, from the top of `while True` to the
\* next await.
Poll(t) ==
    /\ ~must_cancel[t]
    /\ \/ pc[t] = "created"
       \/ pc[t] = "sleep" /\ wake[t] <= now
    /\ LET b == Branch(Remaining, warning_sent_5min, warning_sent_1min) IN
        /\ warning_sent_5min' = (warning_sent_5min \/ b = "w5")
        /\ warning_sent_1min' = (warning_sent_1min \/ b = "w1")
        /\ replies' = IF b \in Kinds THEN Append(replies, Reply(b, t)) ELSE replies
        /\ pc' = [pc EXCEPT ![t] = CASE b = "end" -> "callEnd"
                                     [] b = "w5" -> "call5"
                                     [] b = "w1" -> "call1"
                                     [] OTHER -> "sleep"]
        /\ wake' = [wake EXCEPT ![t] = now + (IF b = "sleep" THEN PollSleep
                                                              ELSE MaxCallTicks)]
    /\ UNCHANGED <<now, start_time, duration_minutes, monitoring_task, ntasks,
                   must_cancel, started_at, replies_at_stop>>
    /\ UNCHANGED entryVars

\* CallReturn with the grace sleep of _end_session left out.
CallReturnNoGrace(t) ==
    /\ ~must_cancel[t]
    /\ pc[t] \in InCall
    /\ pc' = [pc EXCEPT ![t] = IF pc[t] = "callEnd" THEN "grace" ELSE "sleep"]
    /\ wake' = [wake EXCEPT ![t] = now + (IF pc[t] = "callEnd" THEN 0 ELSE PollSleep)]
    /\ UNCHANGED <<now, start_time, duration_minutes, warning_sent_5min,
                   warning_sent_1min, monitoring_task, ntasks, must_cancel,
                   started_at, replies, replies_at_stop>>
    /\ UNCHANGED entryVars

\* CallReturn with `if` in place of `elif` before the 1-minute test: when
\* the 5-minute warning call returns, the same iteration goes on to test the
\* 1-minute threshold.
CallReturnFallThrough(t) ==
    /\ ~must_cancel[t]
    /\ pc[t] \in InCall
    /\ LET again == /\ pc[t] = "call5"
                    /\ Remaining <= OneMinute * MinuteTicks
                    /\ ~warning_sent_1min
       IN /\ pc' = [pc EXCEPT ![t] = IF pc[t] = "callEnd" THEN "grace"
                                     ELSE IF again THEN "call1" ELSE "sleep"]
          /\ wake' = [wake EXCEPT ![t] = now + (IF pc[t] = "callEnd" THEN GraceSleep
                                                ELSE IF again THEN MaxCallTicks
                                                ELSE PollSleep)]
          /\ warning_sent_1min' = (warning_sent_1min \/ again)
          /\ replies' = IF again THEN Append(replies, Reply("w1", t)) ELSE replies
    /\ UNCHANGED <<now, start_time, duration_minutes, warning_sent_5min,
                   monitoring_task, ntasks, must_cancel, started_at, replies_at_stop>>
    /\ UNCHANGED entryVars

\* session.generate_reply returns: a warning goes on to asyncio.sleep(30),
\* the end-of-session instruction goes on to asyncio.sleep(10).
CallReturn(t) ==
    /\ ~must_cancel[t]
    /\ pc[t] \in InCall
    /\ pc' = [pc EXCEPT ![t] = IF pc[t] = "callEnd" THEN "grace" ELSE "sleep"]
    /\ wake' = [wake EXCEPT ![t] = now + (IF pc[t] = "callEnd" THEN GraceSleep ELSE PollSleep)]
    /\ UNCHANGED <<now, start_time, duration_minutes, warning_sent_5min,
                   warning_sent_1min, monitoring_task, ntasks, must_cancel,
                   started_at, replies, replies_at_stop>>
    /\ UNCHANGED entryVars

\* CallFail with the failed warning recorded as not fired: the flag of the
\* warning whose call raised is cleared.
CallFailClearsFlag(t) ==
    /\ ~must_cancel[t]
    /\ pc[t] \in InCall
    /\ pc' = [pc EXCEPT ![t] = "failed"]
    /\ warning_sent_5min' = (warning_sent_5min /\ pc[t] # "call5")
    /\ warning_sent_1min' = (warning_sent_1min /\ pc[t] # "call1")
    /\ UNCHANGED <<now, start_time, duration_minutes, monitoring_task, ntasks,
                   wake, must_cancel, started_at, replies, replies_at_stop>>
    /\ UNCHANGED entryVars

\* session.generate_reply raises a backend error: only asyncio.CancelledError
\* is caught, so the exception leaves _end_session and _monitor_time.
CallFail(t) ==
    /\ ~must_cancel[t]
    /\ pc[t] \in InCall
    /\ pc' = [pc EXCEPT ![t] = "failed"]
    /\ UNCHANGED <<now, start_time, duration_minutes, warning_sent_5min,
                   warning_sent_1min, monitoring_task, ntasks, wake, must_cancel,
                   started_at, replies, replies_at_stop>>
    /\ UNCHANGED entryVars

\* asyncio.sleep(10) of _end_session is over: _end_session returns, break.
GraceOver(t) ==
    /\ ~must_cancel[t]
    /\ pc[t] = "grace"
    /\ wake[t] <= now
    /\ pc' = [pc EXCEPT ![t] = "done"]
    /\ UNCHANGED <<now, start_time, duration_minutes, warning_sent_5min,
                   warning_sent_1min, monitoring_task, ntasks, wake, must_cancel,
                   started_at, replies, replies_at_stop>>
    /\ UNCHANGED entryVars

\* StopMonitoring without the test of line 65: cancel() is called on
\* whatever the controller holds, and None has no method cancel.
StopMonitoringNoGuard ==
    /\ entry = "monitoring"
    /\ IF monitoring_task = 0
         THEN /\ entry' = "crashed"
              /\ UNCHANGED <<must_cancel, replies_at_stop>>
         ELSE /\ UNCHANGED entry
              /\ IF pc[monitoring_task] \notin Finished
                   THEN /\ must_cancel' = [must_cancel EXCEPT ![monitoring_task] = TRUE]
                        /\ replies_at_stop' = IF replies_at_stop = -1 THEN Len(replies)
                                              ELSE replies_at_stop
                   ELSE UNCHANGED <<must_cancel, replies_at_stop>>
    /\ UNCHANGED <<now, start_time, duration_minutes, warning_sent_5min,
                   warning_sent_1min, monitoring_task, ntasks, pc, wake,
                   started_at, replies>>
    /\ UNCHANGED <<metadata_str, raw_metadata, metadata, agent_class, llmVars>>

\* stop_monitoring: cancel() on the task the controller holds, when there is
\* one and it is not done.
StopMonitoring ==
    /\ entry = "monitoring"
    /\ IF monitoring_task # 0 /\ pc[monitoring_task] \notin Finished
         THEN /\ must_cancel' = [must_cancel EXCEPT ![monitoring_task] = TRUE]
              /\ replies_at_stop' = IF replies_at_stop = -1 THEN Len(replies)
                                    ELSE replies_at_stop
         ELSE UNCHANGED <<must_cancel, replies_at_stop>>
    /\ UNCHANGED <<now, start_time, duration_minutes, warning_sent_5min,
                   warning_sent_1min, monitoring_task, ntasks, pc, wake,
                   started_at, replies>>
    /\ UNCHANGED entryVars

\* DeliverCancel with the CancelledError swallowed inside the loop, which
\* then goes on to its next iteration.
DeliverCancelContinue(t) ==
    /\ must_cancel[t]
    /\ pc[t] \notin Finished
    /\ pc' = [pc EXCEPT ![t] = "sleep"]
    /\ wake' = [wake EXCEPT ![t] = now]
    /\ must_cancel' = [must_cancel EXCEPT ![t] = FALSE]
    /\ UNCHANGED <<now, start_time, duration_minutes, warning_sent_5min,
                   warning_sent_1min, monitoring_task, ntasks, started_at,
                   replies, replies_at_stop>>
    /\ UNCHANGED entryVars

\* DeliverCancel without the except clause: the CancelledError leaves the
\* coroutine and the task ends cancelled.
DeliverCancelUncaught(t) ==
    /\ must_cancel[t]
    /\ pc[t] \notin Finished
    /\ pc' = [pc EXCEPT ![t] = "cancelled"]
    /\ must_cancel' = [must_cancel EXCEPT ![t] = FALSE]
    /\ UNCHANGED <<now, start_time, duration_minutes, warning_sent_5min,
                   warning_sent_1min, monitoring_task, ntasks, wake, started_at,
                   replies, replies_at_stop>>
    /\ UNCHANGED entryVars

\* The event loop delivers the cancellation at the await where the task is
\* suspended: inside the try it is caught (`except asyncio.CancelledError:
\* pass`) and the coroutine returns; a task that has not run yet is cancelled
\* without entering the body.
DeliverCancel(t) ==
    /\ must_cancel[t]
    /\ pc[t] \notin Finished
    /\ pc' = [pc EXCEPT ![t] = IF pc[t] = "created" THEN "cancelled" ELSE "stopped"]
    /\ must_cancel' = [must_cancel EXCEPT ![t] = FALSE]
    /\ UNCHANGED <<now, start_time, duration_minutes, warning_sent_5min,
                   warning_sent_1min, monitoring_task, ntasks, wake, started_at,
                   replies, replies_at_stop>>
    /\ UNCHANGED entryVars

TaskStep(t) ==
    \/ Poll(t)
    \/ CallReturn(t)
    \/ CallFail(t)
    \/ GraceOver(t)
    \/ DeliverCancel(t)

\* The entrypoint calls start_monitoring once per controller.
StartOnce == ntasks = 0 /\ StartMonitoring

\* A second call of start_monitoring on the same controller, within
\* MaxStartDelay of the first.
StartAgain ==
    /\ ntasks = 1
    /\ now - started_at[1] <= MaxStartDelay
    /\ StartMonitoring

Next ==
    \/ Tick
    \/ StartOnce
    \/ StopMonitoring
    \/ \E t \in TaskIds : Poll(t)
    \/ \E t \in TaskIds : CallReturn(t)
    \/ \E t \in TaskIds : CallFail(t)
    \/ \E t \in TaskIds : GraceOver(t)
    \/ \E t \in TaskIds : DeliverCancel(t)

Spec == Init /\ [][Next]_vars

\* start_monitoring may be called again while a task exists.
NextRestart ==
    \/ Tick
    \/ StartOnce
    \/ StartAgain
    \/ StopMonitoring
    \/ \E t \in TaskIds : Poll(t)
    \/ \E t \in TaskIds : CallReturn(t)
    \/ \E t \in TaskIds : CallFail(t)
    \/ \E t \in TaskIds : GraceOver(t)
    \/ \E t \in TaskIds : DeliverCancel(t)

SpecRestart == Init /\ [][NextRestart]_vars

\* the variables of the controller and of its tasks
timerVars == <<now, start_time, duration_minutes, warning_sent_5min,
               warning_sent_1min, monitoring_task, ntasks, pc, wake, must_cancel,
               started_at, replies, replies_at_stop>>

\* ------------------------------------------------ entrypoint: configuration
\* raw_metadata = json.loads(metadata_str), guarded by `if metadata_str` and
\* `except json.JSONDecodeError`
EntryParse ==
    /\ entry = "parse"
    /\ raw_metadata' = ParseMetadata(metadata_str)
    /\ entry' = "transform"
    /\ UNCHANGED <<timerVars, metadata_str, metadata, agent_class, llmVars>>

\* metadata = transform_ui_metadata(raw_metadata); an exception leaves the
\* entrypoint.
EntryTransform ==
    /\ entry = "transform"
    /\ LET result == transform_ui_metadata(raw_metadata) IN
        IF result.error # ""
        THEN /\ entry' = "crashed"
             /\ UNCHANGED metadata
        ELSE /\ entry' = "create"
             /\ metadata' = result
    /\ UNCHANGED <<timerVars, metadata_str, raw_metadata, agent_class, llmVars>>

\* custom_agent = SimplifiedAgentFactory.create_agent(...)
EntryCreateAgent ==
    /\ entry = "create"
    /\ agent_class' = create_agent(metadata.agent_type)
    /\ entry' = "configured"
    /\ UNCHANGED <<timerVars, metadata_str, raw_metadata, metadata, llmVars>>

InitConfig ==
    /\ Constructed
    /\ duration_minutes = 0
    /\ entry = "parse"
    /\ metadata_str \in RoomMetadata
    /\ raw_metadata = EmptyDict
    /\ metadata = NoMetadata
    /\ agent_class = "none"
    /\ VoiceIdle

NextConfig ==
    \/ EntryParse
    \/ EntryTransform
    \/ EntryCreateAgent

\* The entrypoint from the room metadata to the created agent.
SpecConfig == InitConfig /\ [][NextConfig]_vars

\* ------------------------------------- entrypoint: greeting and monitoring
\* await session.generate_reply(instructions=custom_agent.get_greeting_instruction()):
\* the call is issued
EntryGreet ==
    /\ entry = "greet"
    /\ replies' = Append(replies, [kind |-> "greeting", task |-> 0, remaining |-> 0])
    /\ entry' = "greeting"
    /\ UNCHANGED <<now, start_time, duration_minutes, warning_sent_5min,
                   warning_sent_1min, monitoring_task, ntasks, pc, wake, must_cancel,
                   started_at, replies_at_stop, metadata_str, raw_metadata,
                   metadata, agent_class, llmVars>>

\* the greeting call returns
GreetReturn ==
    /\ entry = "greeting"
    /\ entry' = "greeted"
    /\ UNCHANGED <<timerVars, metadata_str, raw_metadata, metadata, agent_class,
                   llmVars>>

\* the greeting call raises: the exception leaves the entrypoint
GreetFail ==
    /\ entry = "greeting"
    /\ entry' = "crashed"
    /\ UNCHANGED <<timerVars, metadata_str, raw_metadata, metadata, agent_class,
                   llmVars>>

\* the clock while the greeting call is unresolved
TickGreeting ==
    /\ entry = "greeting"
    /\ now < MaxCallTicks
    /\ now' = now + 1
    /\ UNCHANGED <<start_time, duration_minutes, warning_sent_5min,
                   warning_sent_1min, monitoring_task, ntasks, pc, wake, must_cancel,
                   started_at, replies, replies_at_stop, entryVars>>

\* Construct with the greeting not awaited: the controller is built while
\* the greeting call may still be unissued or in flight.
ConstructEarly ==
    /\ entry \in {"greet", "greeting", "greeted"}
    /\ start_time' = now
    /\ entry' = "monitoring"
    /\ UNCHANGED <<now, duration_minutes, warning_sent_5min, warning_sent_1min,
                   monitoring_task, ntasks, pc, wake, must_cancel, started_at,
                   replies, replies_at_stop, metadata_str, raw_metadata, metadata,
                   agent_class, llmVars>>

\* time_manager = SessionTimeManager(...): self.start_time = datetime.now()
Construct ==
    /\ entry = "greeted"
    /\ start_time' = now
    /\ entry' = "monitoring"
    /\ UNCHANGED <<now, duration_minutes, warning_sent_5min, warning_sent_1min,
                   monitoring_task, ntasks, pc, wake, must_cancel, started_at,
                   replies, replies_at_stop, metadata_str, raw_metadata, metadata,
                   agent_class, llmVars>>

InitEntry ==
    /\ Constructed
    /\ duration_minutes \in Durations
    /\ entry = "greet"
    /\ EntryIdle

NextEntry ==
    \/ EntryGreet
    \/ GreetReturn
    \/ GreetFail
    \/ TickGreeting
    \/ Construct
    \/ Tick
    \/ StartOnce
    \/ StopMonitoring
    \/ \E t \in TaskIds : Poll(t)
    \/ \E t \in TaskIds : CallReturn(t)
    \/ \E t \in TaskIds : CallFail(t)
    \/ \E t \in TaskIds : GraceOver(t)
    \/ \E t \in TaskIds : DeliverCancel(t)

\* The entrypoint from the greeting on, with the controller it starts.
SpecEntry == InitEntry /\ [][NextEntry]_vars

\* ------------------------------------------------------------------
\* Voice and backend selection (src/src/llm_providers.py).

\* str.lower() on ASCII letters
UpperCase == "ABCDEFGHIJKLMNOPQRSTUVWXYZ"
LowerCase == "abcdefghijklmnopqrstuvwxyz"

LowerChar(c) ==
    IF \E i \in 1..Len(UpperCase) : SubSeq(UpperCase, i, i) = c
    THEN LET i == CHOOSE j \in 1..Len(UpperCase) : SubSeq(UpperCase, j, j) = c
         IN SubSeq(LowerCase, i, i)
    ELSE c

RECURSIVE Lower(_)
Lower(str) ==
    IF Len(str) = 0 THEN ""
    ELSE LowerChar(SubSeq(str, 1, 1)) \o Lower(SubSeq(str, 2, Len(str)))

\* LLMFactory._providers
Providers == [google |-> "GoogleLLMProvider", openai |-> "OpenAILLMProvider"]

\* GENDER_VOICES of each provider class
GENDER_VOICES ==
    [GoogleLLMProvider |-> [male |-> <<"Puck", "Charon", "Fenrir">>,
                            female |-> <<"Aoede", "Kore">>],
     OpenAILLMProvider |-> [male |-> <<"onyx", "echo">>,
                            female |-> <<"nova", "shimmer">>]]

\* LLMFactory.get_provider: the class of the provider it instantiates
get_provider(name) == Get(Providers, Lower(name), "GoogleLLMProvider")

\* voices of get_random_voice_for_gender with the male list as the default
VoicesDefaultMale(provider_class, g) ==
    Get(GENDER_VOICES[provider_class], Lower(g), GENDER_VOICES[provider_class]["male"])

\* voices of get_random_voice_for_gender: the list random.choice draws from
Voices(provider_class, g) ==
    Get(GENDER_VOICES[provider_class], Lower(g), GENDER_VOICES[provider_class]["female"])

\* backend identifiers and gender strings drawn for create_llm
ProviderNames == {"google", "openai", "Google", "OPENAI", "azure", ""}
Genders == {"male", "female", "Male", "FEMALE", "robot", ""}

\* LLMFactory.create_llm(provider_name, gender): get_provider, then
\* create_model, whose voice random.choice picks from the list.
CreateLLM ==
    /\ entry = "create_llm"
    /\ voice_calls < MaxVoiceCalls
    /\ LET provider_class == get_provider(provider_name) IN
        /\ provider' = provider_class
        /\ \E i \in 1..Len(Voices(provider_class, gender)) :
               selected_voice' = Voices(provider_class, gender)[i]
    /\ voice_calls' = voice_calls + 1
    /\ UNCHANGED <<timerVars, entry, metadata_str, raw_metadata, metadata,
                   agent_class, provider_name, gender>>

InitVoice ==
    /\ Constructed
    /\ duration_minutes = 0
    /\ entry = "create_llm"
    /\ metadata_str = NonObject("absent")
    /\ raw_metadata = EmptyDict
    /\ metadata = NoMetadata
    /\ agent_class = "none"
    /\ provider_name \in ProviderNames
    /\ gender \in Genders
    /\ provider = "none"
    /\ selected_voice = ""
    /\ voice_calls = 0

NextVoice == CreateLLM

\* Repeated calls of create_llm on one backend identifier and gender.
SpecVoice == InitVoice /\ [][NextVoice]_vars

TypeOK ==
    /\ now \in 0..(Horizon + MaxCallTicks)
    /\ start_time \in 0..MaxCallTicks
    /\ duration_minutes \in Durations
    /\ warning_sent_5min \in BOOLEAN
    /\ warning_sent_1min \in BOOLEAN
    /\ monitoring_task \in 0..MaxTasks
    /\ ntasks \in 0..MaxTasks
    /\ \A t \in TaskIds : pc[t] \in {"none", "created", "sleep", "grace"} \cup InCall \cup Finished
    /\ \A t \in TaskIds : must_cancel[t] \in BOOLEAN
    /\ \A i \in 1..Len(replies) : replies[i].kind \in Kinds \cup {"greeting"}
    /\ entry \in {"parse", "transform", "create", "configured", "crashed",
                  "greet", "greeting", "greeted", "monitoring", "create_llm"}
    /\ metadata_str \in RoomMetadata
    /\ provider_name \in ProviderNames
    /\ gender \in Genders
    /\ provider \in {"none"} \cup {Providers[k] : k \in DOMAIN Providers}
    /\ voice_calls \in 0..MaxVoiceCalls
    /\ agent_class \in {"none"} \cup {AgentTypes[k] : k \in AgentKinds}
    /\ replies_at_stop \in -1..Len(replies)

\* The event loop runs every callback it has scheduled: a requested
\* cancellation is delivered and a task whose wait is over is resumed.
FairSpec ==
    /\ Spec
    /\ \A t \in TaskIds : WF_vars(DeliverCancel(t))
    /\ \A t \in TaskIds : WF_vars(Poll(t))
    /\ \A t \in TaskIds : WF_vars(GraceOver(t))

\* ------------------------------------------------------------ vocabulary
\* number of generate_reply calls of one kind
Count(kind) == Cardinality({i \in 1..Len(replies) : replies[i].kind = kind})

\* positions in replies of the calls task t made
CallsOf(t) == {i \in 1..Len(replies) : replies[i].task = t}

\* kind of the latest call task t made ("" when it made none)
LastKind(t) ==
    IF CallsOf(t) = {} THEN ""
    ELSE replies[CHOOSE i \in CallsOf(t) : \A j \in CallsOf(t) : j <= i].kind

\* remaining time when task t was created by start_monitoring
StartRemaining(t) == duration_minutes * MinuteTicks - (started_at[t] - start_time)

\* cancel() was called on task t
WasCancelled(t) == must_cancel[t] \/ pc[t] \in {"stopped", "cancelled"}

\* stop_monitoring never cancelled a task
NotCancelled == replies_at_stop = -1

\* clock value at which reply i was issued
IssuedAt(i) == start_time + duration_minutes * MinuteTicks - replies[i].remaining

\* ------------------------------------------------------------------- C1
\* C1: each warning instruction is issued at most once, and exactly as
\* often as its fired flag says: polls that see the remaining time at or
\* below a threshold whose flag is set issue nothing more for it.
C1_WarningsAtMostOnce ==
    /\ Count("w5") = (IF warning_sent_5min THEN 1 ELSE 0)
    /\ Count("w1") = (IF warning_sent_1min THEN 1 ELSE 0)

\* A poll later than the one that issued the 5-minute warning has run with
\* the remaining time still between the two thresholds, and there is one call.
C1_Witness ==
    /\ Len(replies) = 1
    /\ replies[1].kind = "w5"
    /\ pc[1] = "sleep"
    /\ wake[1] > now
    /\ now - IssuedAt(1) >= MaxCallTicks + PollSleep
    /\ Remaining > OneMinute * MinuteTicks

\* ------------------------------------------------------------------- C2
\* C2: in a session that is not cancelled, once the monitoring task has
\* finished the end-of-session instruction has been issued exactly once and
\* it is the last instruction issued.
C2_EndExactlyOnce ==
    \A t \in TaskIds :
        (pc[t] \in Finished /\ NotCancelled) =>
            /\ Count("end") = 1
            /\ replies[Len(replies)].kind = "end"

\* ------------------------------------------------------------------- C3
\* C3: when monitoring starts with more than 5 minutes remaining and the
\* session is not cancelled, each warning has been issued once the remaining
\* time is a poll interval below its threshold, each at most once, the
\* 5-minute warning before the 1-minute warning.
C3_BothWarningsInOrder ==
    (ntasks >= 1 /\ StartRemaining(1) > FiveMinutes * MinuteTicks /\ NotCancelled) =>
        /\ Count("w5") <= 1
        /\ Count("w1") <= 1
        /\ Remaining <= FiveMinutes * MinuteTicks - PollSleep => Count("w5") = 1
        /\ Remaining <= OneMinute * MinuteTicks - PollSleep => Count("w1") = 1
        /\ \A i, j \in 1..Len(replies) :
               (replies[i].kind = "w5" /\ replies[j].kind = "w1") => i < j

\* ------------------------------------------------------------------- C4
\* C4: when monitoring starts with at most 1 minute and more than 0
\* remaining, the 5-minute warning is never issued.
C4_NoFiveMinuteWarning ==
    (ntasks >= 1 /\ StartRemaining(1) > 0
                 /\ StartRemaining(1) <= OneMinute * MinuteTicks) =>
        Count("w5") = 0

\* ------------------------------------------------------------------- C5
\* C5: when monitoring starts with no time remaining, the first poll issues
\* the end-of-session instruction at that very moment and no warning is
\* ever issued.
C5_EndImmediately ==
    (ntasks >= 1 /\ StartRemaining(1) <= 0) =>
        /\ Count("w5") = 0
        /\ Count("w1") = 0
        /\ pc[1] \notin {"created", "cancelled"} =>
               /\ Len(replies) >= 1
               /\ replies[1] = [kind |-> "end", task |-> 1,
                                remaining |-> StartRemaining(1)]

\* Monitoring started with no time remaining and the first poll has run.
C5_Witness ==
    /\ ntasks >= 1
    /\ StartRemaining(1) <= 0
    /\ pc[1] = "grace"
    /\ Len(replies) = 1

\* ------------------------------------------------------------------- C6
\* C6: no instruction is issued early: every 5-minute warning was issued
\* with at most 5 minutes remaining, every 1-minute warning with at most
\* 1 minute remaining, every end-of-session instruction with none remaining.
C6_NeverEarly ==
    \A i \in 1..Len(replies) :
        /\ replies[i].kind = "w5" => replies[i].remaining <= FiveMinutes * MinuteTicks
        /\ replies[i].kind = "w1" => replies[i].remaining <= OneMinute * MinuteTicks
        /\ replies[i].kind = "end" => replies[i].remaining <= 0

\* All three instructions have been issued in one session.
C6_Witness ==
    /\ Count("w5") = 1
    /\ Count("w1") = 1
    /\ Count("end") = 1

\* ------------------------------------------------------------------- C7
\* C7: after stop_monitoring has cancelled the monitoring task, no further
\* instruction is issued; a stop before any instruction leaves the session
\* with no instruction at all.
C7_NothingAfterStop ==
    replies_at_stop >= 0 => Len(replies) = replies_at_stop

\* The task was stopped while running, before any threshold was crossed,
\* and has ended.
C7_Witness ==
    /\ replies_at_stop = 0
    /\ pc[1] = "stopped"
    /\ Remaining > FiveMinutes * MinuteTicks

\* ------------------------------------------------------------------- C8
\* C8 as stated: a task that stop_monitoring cancelled ends only by normal
\* completion of the coroutine.
C8_AlwaysNormalCompletion ==
    \A t \in TaskIds :
        (WasCancelled(t) /\ pc[t] \in Finished) => pc[t] = "stopped"

\* C8 amended: a cancelled task terminates and never ends in an error; a
\* task that has begun running absorbs the cancellation and returns
\* normally, a task that has not run yet ends cancelled without running.
C8_CancelAbsorbedOnceRunning ==
    /\ [][\A t \in TaskIds :
            must_cancel[t] =>
                \/ pc'[t] = pc[t]
                \/ pc[t] = "created" /\ pc'[t] = "cancelled"
                \/ pc[t] # "created" /\ pc'[t] = "stopped"]_vars
    /\ \A t \in TaskIds : must_cancel[t] ~> pc[t] \in {"stopped", "cancelled"}

\* A task cancelled during the grace interval has returned normally.
C8_Witness ==
    /\ pc[1] = "stopped"
    /\ Count("end") = 1
    /\ replies_at_stop = Len(replies)

\* ------------------------------------------------------------------- C9
\* C9: a warning call that fails does not end the poll loop: a task never
\* ends by an exception while its latest instruction is a warning.
C9_WarningFailureKeepsLoop ==
    \A t \in TaskIds :
        LastKind(t) \in {"w5", "w1"} => pc[t] # "failed"

\* ------------------------------------------------------------------ C10
\* C10: a task that issued the end-of-session instruction and was not
\* cancelled ends only through the grace interval.
C10_GraceAfterEndFailure ==
    \A t \in TaskIds :
        (LastKind(t) = "end" /\ pc[t] \in Finished /\ pc[t] # "stopped") =>
            pc[t] = "done"

\* ------------------------------------------------------------------ C11
\* The premises of the liveness claim: time keeps advancing, every call of
\* generate_reply eventually returns, and the event loop resumes every task
\* whose wait is over.
LiveSpec ==
    /\ Spec
    /\ WF_vars(Tick)
    /\ \A t \in TaskIds : WF_vars(Poll(t))
    /\ \A t \in TaskIds : WF_vars(CallReturn(t))
    /\ \A t \in TaskIds : WF_vars(GraceOver(t))
    /\ \A t \in TaskIds : WF_vars(DeliverCancel(t))

\* C11: once monitoring has started, unless the session is cancelled or a
\* call raises instead of returning, the end-of-session instruction is
\* eventually issued and the monitoring task eventually terminates.
C11_EventuallyEnds ==
    (ntasks >= 1) ~> \/ pc[1] = "done" /\ Count("end") = 1
                     \/ ~NotCancelled
                     \/ pc[1] = "failed"

\* A session that started with more than 5 minutes left ran to its end
\* without a cancellation or a failure.
C11_Witness ==
    /\ pc[1] = "done"
    /\ NotCancelled
    /\ StartRemaining(1) > FiveMinutes * MinuteTicks
    /\ Count("end") = 1

C13_CallsSequential ==
    /\ [][(\E t \in TaskIds : pc[t] \in InCall) =>
            /\ replies' = replies
            /\ warning_sent_5min' = warning_sent_5min
            /\ warning_sent_1min' = warning_sent_1min]_vars
    /\ [](Cardinality({t \in TaskIds : pc[t] \in InCall}) <= 1)

\* The 5-minute warning call is still in flight, time has passed since it
\* was issued and the 1-minute threshold is crossed, and nothing else has
\* been issued.
C13_Witness ==
    /\ pc[1] = "call5"
    /\ Remaining <= OneMinute * MinuteTicks
    /\ now > IssuedAt(1)
    /\ ~warning_sent_1min
    /\ Len(replies) = 1

\* ------------------------------------------------------------------ C14
\* C14: with two monitoring tasks on one controller, under every
\* interleaving each warning kind is issued at most once.
C14_NoDoubleFire ==
    \A k \in {"w5", "w1"} : Count(k) <= 1

\* The second task polled below the 5-minute threshold while the 5-minute
\* warning call of the first task was still in flight.
C14_Witness ==
    /\ ntasks = 2
    /\ pc[1] = "call5"
    /\ pc[2] = "sleep"
    /\ Remaining <= FiveMinutes * MinuteTicks
    /\ Count("w5") = 1

\* ------------------------------------------------------------------ C15
\* C15: progress is one-directional: a fired flag is never reset, no
\* 5-minute warning follows a 1-minute warning, and no warning follows the
\* end-of-session instruction.
C15_Monotonic ==
    /\ [][/\ warning_sent_5min => warning_sent_5min'
          /\ warning_sent_1min => warning_sent_1min']_vars
    /\ [](\A i, j \in 1..Len(replies) :
            i < j => /\ ~(replies[i].kind = "w1" /\ replies[j].kind = "w5")
                     /\ ~(replies[i].kind = "end" /\ replies[j].kind \in {"w5", "w1"}))

\* Both flags are set and the session went through all of its stages.
C15_Witness ==
    /\ warning_sent_5min
    /\ warning_sent_1min
    /\ Len(replies) = 3
    /\ pc[1] = "grace"

\* ------------------------------------------------------------------ C16
\* C16: the greeting is the first call of generate_reply and the only
\* greeting; until it has resolved there is no controller, no monitoring
\* task and no other call, so every warning and end-of-session instruction
\* comes after the resolved greeting.
C16_GreetingFirst ==
    /\ Len(replies) >= 1 => replies[1].kind = "greeting"
    /\ Count("greeting") <= 1
    /\ entry \in {"greet", "greeting", "greeted", "crashed"} =>
           /\ ntasks = 0
           /\ \A i \in 1..Len(replies) : replies[i].kind \notin Kinds
    /\ (\E i \in 1..Len(replies) : replies[i].kind \in Kinds) => entry = "monitoring"

\* The greeting took time to resolve, then the controller was built and the
\* session went through both warnings and the end instruction.
C16_Witness ==
    /\ entry = "monitoring"
    /\ start_time > 0
    /\ Len(replies) = 4
    /\ replies[4].kind = "end"

\* ------------------------------------------------------------------ C17
\* C17: the normalizer takes `duration` as minutes: absent it gives 15
\* minutes for every agent kind, present it gives the value unchanged.
C17_DurationIsMinutes ==
    entry \in {"create", "configured"} =>
        metadata.duration_minutes = Get(raw_metadata.fields, "duration", 15)

\* ------------------------------------------------------------------ C18
\* C18: the normalizer never fails: whatever the room metadata is, the
\* entrypoint gets a configuration, and metadata that is absent, unparseable
\* or not an object gives the configuration of the empty object.
C18_NormalizerNeverFails ==
    /\ entry # "crashed"
    /\ (entry \in {"create", "configured"} /\ metadata_str.json # "object") =>
           metadata = transform_ui_metadata(EmptyDict)

ClaimedParts(f) ==
    LET Part(key, label) == IF key \in DOMAIN f THEN <<label \o f[key]>> ELSE <<>>
    IN Part("description", "") \o Part("display_name", "Interviewer: ")
           \o Part("level", "Level: ") \o Part("specialty", "Specialty: ")

\* text ends with a separator, or begins with one, or holds two in a row
BadSeparator(text) ==
    \/ Len(text) >= 2 /\ SubSeq(text, 1, 2) = ". "
    \/ Len(text) >= 2 /\ SubSeq(text, Len(text) - 1, Len(text)) = ". "
    \/ \E i \in 1..Len(text) : i + 3 <= Len(text) /\ SubSeq(text, i, i + 3) = ". . "

\* C20: the normalized description is the present parts in the fixed order
\* with ". " between neighbours, and it has no leading, trailing or doubled
\* separator; with no field present it is the empty string.
C20_DescriptionJoined ==
    entry \in {"create", "configured"} =>
        LET parts == ClaimedParts(raw_metadata.fields)
            n == Len(parts)
        IN /\ metadata.description =
                  (IF n >= 1 THEN parts[1] ELSE "")
                      \o (IF n >= 2 THEN ". " \o parts[2] ELSE "")
                      \o (IF n >= 3 THEN ". " \o parts[3] ELSE "")
                      \o (IF n >= 4 THEN ". " \o parts[4] ELSE "")
           /\ ~BadSeparator(metadata.description)

\* ------------------------------------------------------------------ C21
\* C21: every call of the selector returns a voice from the table of the
\* backend it chose, for the gender it resolved: backend google with gender
\* male gives one of Puck, Charon, Fenrir; a gender string that is neither
\* male nor female gives a voice of the female set of that backend; a
\* backend identifier that is neither google nor openai is handled as google.
C21_VoiceFromTable ==
    voice_calls >= 1 =>
        LET unknownBackend == Lower(provider_name) \notin {"google", "openai"}
            unknownGender == Lower(gender) \notin {"male", "female"}
            googleVoice == selected_voice \in {"Puck", "Charon", "Fenrir", "Aoede", "Kore"}
            openaiVoice == selected_voice \in {"onyx", "echo", "nova", "shimmer"}
        IN /\ (provider_name = "google" /\ gender = "male") =>
                  selected_voice \in {"Puck", "Charon", "Fenrir"}
           /\ unknownBackend => (provider = "GoogleLLMProvider" /\ googleVoice)
           /\ provider_name = "google" => (provider = "GoogleLLMProvider" /\ googleVoice)
           /\ provider_name = "openai" => (provider = "OpenAILLMProvider" /\ openaiVoice)
           /\ unknownGender => selected_voice \in {"Aoede", "Kore", "nova", "shimmer"}
           /\ gender = "male" =>
                  selected_voice \in {"Puck", "Charon", "Fenrir", "onyx", "echo"}
           /\ gender = "female" =>
                  selected_voice \in {"Aoede", "Kore", "nova", "shimmer"}

\* An unknown backend identifier with an unrecognized gender string was
\* given twice and the last call returned a female voice of google.
C21_Witness ==
    /\ voice_calls >= 2
    /\ provider_name = "azure"
    /\ gender = "robot"
    /\ provider = "GoogleLLMProvider"
    /\ selected_voice = "Kore"

\* ------------------------------------------------------------------ C22
\* C22: with a single monitoring task, the 1-minute fired flag is set only
\* when the 5-minute fired flag is set; every 1-minute warning comes after
\* a 5-minute warning issued at least one poll interval earlier; and no
\* step of the task issues two instructions or sets both flags.
C22_OneAfterFive ==
    /\ [](warning_sent_1min => warning_sent_5min)
    /\ [](\A j \in 1..Len(replies) :
            replies[j].kind = "w1" =>
                \E i \in 1..(j - 1) :
                    /\ replies[i].kind = "w5"
                    /\ IssuedAt(j) >= IssuedAt(i) + PollSleep)
    /\ [][/\ Len(replies') <= Len(replies) + 1
          /\ ~(/\ warning_sent_5min' # warning_sent_5min
               /\ warning_sent_1min' # warning_sent_1min)]_vars

\* Monitoring started at or below the 1-minute threshold: the first poll
\* issued the 5-minute warning and the poll after it the 1-minute warning.
C22_Witness ==
    /\ ntasks = 1
    /\ StartRemaining(1) <= OneMinute * MinuteTicks
    /\ pc[1] = "call1"
    /\ Len(replies) = 2
    /\ replies[1].kind = "w5"
    /\ replies[2].kind = "w1"

\* ------------------------------------------------------------------ C23
\* C23: while the call of a warning is in flight the fired flag of that
\* warning is set, and a call that ends by a failure or a cancellation
\* leaves both flags as they were, so the warning stays recorded as fired.
C23_FlagSetWhileInFlight ==
    /\ [](\A t \in TaskIds :
            /\ pc[t] = "call5" => warning_sent_5min
            /\ pc[t] = "call1" => warning_sent_1min)
    /\ [][\A t \in TaskIds :
            (pc[t] \in {"call5", "call1"} /\ pc'[t] \in {"failed", "stopped"}) =>
                /\ warning_sent_5min' = warning_sent_5min
                /\ warning_sent_1min' = warning_sent_1min
                /\ pc[t] = "call5" => warning_sent_5min'
                /\ pc[t] = "call1" => warning_sent_1min']_vars
    /\ [](\A t \in TaskIds :
            (pc[t] \in {"failed", "stopped"} /\ LastKind(t) = "w5") => warning_sent_5min)
    /\ [](\A t \in TaskIds :
            (pc[t] \in {"failed", "stopped"} /\ LastKind(t) = "w1") => warning_sent_1min)

\* The call of the 1-minute warning raised while in flight and the task
\* ended with both warnings recorded as fired.
C23_Witness ==
    /\ pc[1] = "failed"
    /\ LastKind(1) = "w1"
    /\ warning_sent_1min
    /\ Count("w1") = 1

\* ------------------------------------------------------------------ C24
\* the controller holds no task, or a task that has ended, or a task on
\* which a cancellation is already pending
NothingToCancel ==
    \/ monitoring_task = 0
    \/ pc[monitoring_task] \in Finished
    \/ must_cancel[monitoring_task]

\* C24: stop_monitoring raises no error in any state; called before
\* start_monitoring, after the task has ended, or again after a stop, it
\* changes nothing; and a call that does cancel only requests the
\* cancellation of the task the controller holds.
C24_StopIdempotent ==
    /\ [](entry # "crashed")
    /\ [](NothingToCancel => ~ENABLED (StopMonitoring /\ vars' # vars))
    /\ [][StopMonitoring =>
            /\ UNCHANGED <<now, start_time, duration_minutes, warning_sent_5min,
                           warning_sent_1min, monitoring_task, ntasks, pc, wake,
                           started_at, replies, entryVars>>
            /\ \A t \in TaskIds : must_cancel'[t] # must_cancel[t] =>
                   (t = monitoring_task /\ must_cancel'[t])]_vars

\* stop_monitoring was called during the call of the 5-minute warning and
\* its cancellation is pending: a further call finds nothing to cancel.
C24_Witness ==
    /\ monitoring_task = 1
    /\ must_cancel[1]
    /\ pc[1] = "call5"
    /\ replies_at_stop = 1

\* ------------------------------------------------------------------ C25
\* C25: a call of stop_monitoring that cancels leaves no task of the
\* controller able to go on: every task start_monitoring created has ended
\* or has its cancellation requested, however often start_monitoring was
\* called before.
C25_StopCancelsEveryTask ==
    [][(StopMonitoring /\ must_cancel' # must_cancel) =>
          \A t \in 1..ntasks : pc[t] \in Finished \/ must_cancel'[t]]_vars
====
